---- MODULE Spec2Model ----
(***************************************************************************)
(* State-machine model of the splashsurf command line front end            *)
(* (splashsurf/src/main.rs): logging setup, path resolution and sequence   *)
(* expansion, parameter translation, task dispatch, counter flush and the  *)
(* process exit code.                                                      *)
(*                                                                         *)
(* A file name is a sequence of tokens.  The tokens ".", "{" and "}" are   *)
(* the characters of that name; every other token stands for a run of      *)
(* characters holding none of these three.  A path is a record             *)
(* [dir, name]: the parent directory ("" is the empty parent of a bare     *)
(* file name) and the file name.                                           *)
(***************************************************************************)
EXTENDS Integers, Sequences, FiniteSets, TLC

\* ---------------------------------------------------------------- bounds

\* Highest frame index a numbered input file can have in the file system.
MaxIdx == 3
\* Highest number of -v repetitions on the command line.
MaxVerbosity == 3
\* Highest value of the particle radius and of each multiplier.
MaxScalar == 3
\* Threads of the host, the size of a worker pool built without a count.
HostThreads == 2

\* ---------------------------------------------------------------- values

\* Option<T>: None is the empty sequence, Some(x) the sequence of x alone
None == <<>>

Some(x) == <<x>>

IsSome(o) == o # <<>>

Unwrap(o) == o[1]

\* ---------------------------------------------------------------- strings

\* usize::to_string for one decimal digit
Digit(d) ==
    CASE d = 0 -> "0" [] d = 1 -> "1" [] d = 2 -> "2" [] d = 3 -> "3"
      [] d = 4 -> "4" [] d = 5 -> "5" [] d = 6 -> "6" [] d = 7 -> "7"
      [] d = 8 -> "8" [] d = 9 -> "9"

RECURSIVE UsizeToString(_)
\* usize::to_string: the decimal digits of i
UsizeToString(i) ==
    IF i < 10 THEN <<Digit(i)>> ELSE UsizeToString(i \div 10) \o <<Digit(i % 10)>>

\* The placeholder "{}" of a sequence pattern
Placeholder == <<"{", "}">>

\* Whether pat occurs in s at position k
MatchAt(s, pat, k) ==
    /\ k + Len(pat) - 1 <= Len(s)
    /\ \A j \in 1..Len(pat) : s[k + j - 1] = pat[j]

\* str::contains
Contains(s, pat) == \E k \in 1..Len(s) : MatchAt(s, pat, k)

RECURSIVE ReplaceFrom(_, _, _, _)
ReplaceFrom(s, pat, rep, k) ==
    IF k > Len(s) THEN <<>>
    ELSE IF MatchAt(s, pat, k) THEN rep \o ReplaceFrom(s, pat, rep, k + Len(pat))
    ELSE <<s[k]>> \o ReplaceFrom(s, pat, rep, k + 1)

\* str::replace: every non-overlapping match of pat, left to right
Replace(s, pat, rep) == ReplaceFrom(s, pat, rep, 1)

\* Positions of the dots of a name after its first token
InnerDots(name) == {k \in 2..Len(name) : name[k] = "."}

LastDot(name) == CHOOSE k \in InnerDots(name) : \A j \in InnerDots(name) : j <= k

\* Path::file_name: None when the path ends in ".."
FileName(p) == IF p.name = <<".", ".">> THEN None ELSE Some(p.name)

\* Path::file_stem: the file name up to its last dot; the whole name when it
\* has no dot or only a leading one
FileStem(p) ==
    IF FileName(p) = None THEN None
    ELSE IF InnerDots(p.name) = {} THEN Some(p.name)
    ELSE Some(SubSeq(p.name, 1, LastDot(p.name) - 1))

\* Path::parent of a path that ends in a file name
Parent(p) == p.dir

\* Path::join of a directory and a path: a bare file name lands in the
\* directory, an absolute path replaces it
Join(dir, p) == [dir |-> IF p.dir = "" THEN dir ELSE p.dir, name |-> p.name]

\* Path::display
Display(p) == IF p.dir = "" THEN p.name ELSE <<p.dir, "/">> \o p.name

\* A bare file name as a path
File(name) == [dir |-> "", name |-> name]

\* ---------------------------------------------------------------- errors

\* Result<(), anyhow::Error>: an error is its chain of messages, outermost
\* first; a message is a text and the value formatted into it
Ok == [ok |-> TRUE, chain |-> <<>>]

Err(chain) == [ok |-> FALSE, chain |-> chain]

Msg(text, arg) == [msg |-> text, arg |-> arg]

\* anyhow::Context::context: a new outermost message
WithContext(r, m) == IF r.ok THEN r ELSE Err(<<m>> \o r.chain)

\* ---------------------------------------------------------------- logging

\* log::LevelFilter, in increasing detail
LevelFilters == <<"Off", "Error", "Warn", "Info", "Debug", "Trace">>

LevelNum(l) == CHOOSE k \in 1..Len(LevelFilters) : LevelFilters[k] = l

\* One call of a log macro
Record(level, text, arg) == [level |-> level, msg |-> text, arg |-> arg]

\* Whether the installed logger writes a record of this level
Enabled(lg, level) == lg.set /\ LevelNum(level) <= LevelNum(lg.level)

\* The lines the installed logger writes to stdout
Output(lg, records) == SelectSeq(records, LAMBDA r : Enabled(lg, r.level))

\* VerbosityLevel::from(u64)
VerbosityLevelFrom(value) ==
    CASE value = 0 -> "None"
      [] value = 1 -> "Verbose"
      [] value = 2 -> "VeryVerbose"
      [] OTHER -> "VeryVerbose"

\* VerbosityLevel::into_filter
IntoFilter(v) ==
    CASE v = "None" -> None
      [] v = "Verbose" -> Some("Debug")
      [] v = "VeryVerbose" -> Some("Trace")

\* char::to_ascii_lowercase on the letters of the modelled values
LowerChar(c) ==
    CASE c = "A" -> "a" [] c = "B" -> "b" [] c = "D" -> "d" [] c = "E" -> "e"
      [] c = "F" -> "f" [] c = "G" -> "g" [] c = "I" -> "i" [] c = "N" -> "n"
      [] c = "O" -> "o" [] c = "R" -> "r" [] c = "S" -> "s" [] c = "T" -> "t"
      [] c = "V" -> "v" [] c = "W" -> "w"
      [] OTHER -> c

\* str::to_ascii_lowercase
ToAsciiLowercase(s) == [k \in 1..Len(s) |-> LowerChar(s[k])]

\* The level names initialize_logging accepts in RUST_LOG
ParseLevel(s) ==
    CASE s = <<"o", "f", "f">> -> Some("Off")
      [] s = <<"e", "r", "r", "o", "r">> -> Some("Error")
      [] s = <<"w", "a", "r", "n">> -> Some("Warn")
      [] s = <<"i", "n", "f", "o">> -> Some("Info")
      [] s = <<"d", "e", "b", "u", "g">> -> Some("Debug")
      [] s = <<"t", "r", "a", "c", "e">> -> Some("Trace")
      [] OTHER -> None

\* A level selection that looks at the verbosity before the quiet flag
SelectLogLevelVerbosityFirst(verbosity, quiet_mode, rust_log) ==
    IF IsSome(IntoFilter(verbosity))
        THEN [level |-> Unwrap(IntoFilter(verbosity)), unknown |-> None]
    ELSE IF quiet_mode THEN [level |-> "Off", unknown |-> None]
    ELSE IF IsSome(rust_log)
        THEN LET log_level == ToAsciiLowercase(Unwrap(rust_log)) IN
             IF IsSome(ParseLevel(log_level))
                 THEN [level |-> Unwrap(ParseLevel(log_level)), unknown |-> None]
                 ELSE [level |-> "Info", unknown |-> Some(log_level)]
    ELSE [level |-> "Info", unknown |-> None]

\* initialize_logging, the level selection: the level and the rejected
\* RUST_LOG value, if any
SelectLogLevel(verbosity, quiet_mode, rust_log) ==
    IF quiet_mode THEN [level |-> "Off", unknown |-> None]
    ELSE IF IsSome(IntoFilter(verbosity))
        THEN [level |-> Unwrap(IntoFilter(verbosity)), unknown |-> None]
    ELSE IF IsSome(rust_log)
        THEN LET log_level == ToAsciiLowercase(Unwrap(rust_log)) IN
             IF IsSome(ParseLevel(log_level))
                 THEN [level |-> Unwrap(ParseLevel(log_level)), unknown |-> None]
                 ELSE [level |-> "Info", unknown |-> Some(log_level)]
    ELSE [level |-> "Info", unknown |-> None]

\* ---------------------------------------------------------------- paths

\* Path::is_file against the set of regular files
IsFile(files, p) == p \in files

\* Path::is_dir against the set of directories
IsDir(ds, d) == d \in ds

\* The result of a step that can fail and that logs and creates directories:
\* the result, the value on success, the directories and the records logged
Outcome(res, value, ds, records) ==
    [res |-> res, value |-> value, dirs |-> ds, log |-> records]

\* ReconstructionRunnerPathCollection::try_new
TryNew(is_sequence, input_file, output_base_path, output_file, output_density_map_points_file, output_density_map_grid_file, output_octree_file, ds, create_ok) ==
    IF IsSome(output_base_path) THEN
        LET base == Unwrap(output_base_path)
            joined == Join(base, output_file)
            output_dir == Parent(joined)
            missing == ~IsDir(ds, output_dir)
            records ==
                IF missing
                    THEN <<Record("Info", "The output directory does not exist. Trying to create it now...",
                                  <<output_dir>> \o Display(joined))>>
                    ELSE <<>>
            value ==
                [is_sequence |-> is_sequence,
                 input_file |-> input_file,
                 output_file |-> joined,
                 output_density_map_points_file |->
                     IF IsSome(output_density_map_points_file)
                         THEN Some(Join(base, Unwrap(output_density_map_points_file)))
                         ELSE None,
                 output_density_map_grid_file |->
                     IF IsSome(output_density_map_grid_file)
                         THEN Some(Join(base, Unwrap(output_density_map_grid_file)))
                         ELSE None,
                 output_octree_file |->
                     IF IsSome(output_octree_file)
                         THEN Some(Join(base, Unwrap(output_octree_file)))
                         ELSE None]
        IN  IF missing /\ ~create_ok
                THEN Outcome(Err(<<Msg("Unable to create output directory", <<output_dir>>),
                                   Msg("io error", <<>>)>>),
                             None, ds, records)
                ELSE Outcome(Ok, Some(value), ds \cup {output_dir}, records)
    ELSE
        Outcome(Ok,
                Some([is_sequence |-> is_sequence,
                      input_file |-> input_file,
                      output_file |-> output_file,
                      output_density_map_points_file |-> output_density_map_points_file,
                      output_density_map_grid_file |-> output_density_map_grid_file,
                      output_octree_file |-> output_octree_file]),
                ds, <<>>)

\* The suffix of a derived output file name
OutputSuffix == <<"s", "u", "r", "f", "a", "c", "e">>

\* format!("{}_{}.vtk", input_stem, output_suffix)
SingleOutputName(input_stem) == input_stem \o <<"_">> \o OutputSuffix \o <<".", "vtk">>

\* format!("{}.vtk", input_stem.replace("{}", &format!("{}_{{}}", output_suffix)))
SequenceOutputName(input_stem) ==
    Replace(input_stem, Placeholder, OutputSuffix \o <<"_">> \o Placeholder) \o <<".", "vtk">>

\* A single input whose surface file is always the derived one
SingleOutputFileDerived(a) == File(SingleOutputName(Unwrap(FileStem(a.input_file))))

\* The surface file of a single input: the user's name or the derived one
SingleOutputFile(a) ==
    IF IsSome(a.output_file) THEN Unwrap(a.output_file)
    ELSE File(SingleOutputName(Unwrap(FileStem(a.input_file))))

\* The surface file template of a sequence of inputs
SequenceOutputFile(a) == File(SequenceOutputName(Unwrap(FileStem(a.input_file))))

\* TryFrom<&ReconstructSubcommandArgs> for ReconstructionRunnerPathCollection
PathCollectionTryFrom(a, files, ds, create_ok) ==
    IF IsFile(files, a.input_file) THEN
        TryNew(FALSE, a.input_file, a.output_dir, SingleOutputFile(a),
               a.output_dm_points, a.output_dm_grid, a.output_octree, ds, create_ok)
    ELSE
        LET warned == <<Record("Warn", "The input file does not exist. Assuming this is a pattern for a sequence of files.",
                               Display(a.input_file))>>
            add(o) == [o EXCEPT !.log = warned \o @]
        IN  IF FileName(a.input_file) = None THEN
                Outcome(Err(<<Msg("The input file path does not end with a filename",
                                  Display(a.input_file))>>),
                        None, ds, warned)
            ELSE IF ~IsDir(ds, Parent(a.input_file)) /\ Parent(a.input_file) # "" THEN
                Outcome(Err(<<Msg("The parent directory of the input file path does not exist",
                                  <<Parent(a.input_file)>>)>>),
                        None, ds, warned)
            ELSE IF Contains(Unwrap(FileName(a.input_file)), Placeholder) THEN
                add(TryNew(TRUE, a.input_file, a.output_dir, SequenceOutputFile(a),
                           a.output_dm_points, a.output_dm_grid, a.output_octree,
                           ds, create_ok))
            ELSE
                Outcome(Err(<<Msg("Input file does not exist or invalid file sequence pattern in input file path",
                                  Display(a.input_file))>>),
                        None, ds, warned)

\* ReconstructionRunnerPaths::new
RunnerPaths(input_file, output_file, output_density_map_points_file, output_density_map_grid_file, output_octree_file) ==
    [input_file |-> input_file,
     output_file |-> output_file,
     output_density_map_points_file |-> output_density_map_points_file,
     output_density_map_grid_file |-> output_density_map_grid_file,
     output_octree_file |-> output_octree_file]

\* The input file of index i of a sequence pattern
InputFileAt(c, i) ==
    [dir |-> Parent(c.input_file),
     name |-> Replace(Unwrap(FileName(c.input_file)), Placeholder, UsizeToString(i))]

\* The output file of index i of a sequence pattern
OutputFileAt(c, i) ==
    [dir |-> Parent(c.output_file),
     name |-> Replace(Unwrap(FileName(c.output_file)), Placeholder, UsizeToString(i))]

\* A loop that scans on past a missing index while a later file exists
CollectContinuesScanning(c, files, i) ==
    \E j \in i..(i + Cardinality(files)) : IsFile(files, InputFileAt(c, j))

\* Whether the loop of collect goes on after looking at index i
CollectContinues(c, files, i) == IsFile(files, InputFileAt(c, i))

RECURSIVE CollectLoop(_, _, _)
\* ReconstructionRunnerPathCollection::collect, the loop from index i on
CollectLoop(c, files, i) ==
    IF CollectContinues(c, files, i)
        THEN <<RunnerPaths(InputFileAt(c, i), OutputFileAt(c, i), None, None, None)>>
             \o CollectLoop(c, files, i + 1)
        ELSE <<>>

\* ReconstructionRunnerPathCollection::collect
Collect(c, files) ==
    IF c.is_sequence THEN CollectLoop(c, files, 1)
    ELSE <<RunnerPaths(c.input_file, c.output_file, c.output_density_map_points_file,
                       c.output_density_map_grid_file, c.output_octree_file)>>

\* ---------------------------------------------------------------- parameters

\* f64 multiplication on the modelled values
Mul(x, y) == x * y

\* Parameters whose splash detection radius is left a multiplier
ParametersUnscaledSplash(a) ==
    [particle_radius |-> a.particle_radius,
     rest_density |-> a.rest_density,
     kernel_radius |-> Mul(a.particle_radius, a.kernel_radius),
     splash_detection_radius |-> a.splash_detection_radius,
     cube_size |-> Mul(a.particle_radius, a.cube_size),
     iso_surface_threshold |-> a.surface_threshold,
     enable_multi_threading |-> a.parallelize_over_particles]

\* splashsurf_lib::Parameters as assembled by
\* TryFrom<&ReconstructSubcommandArgs> for ReconstructionRunnerArgs
Parameters(a) ==
    [particle_radius |-> a.particle_radius,
     rest_density |-> a.rest_density,
     kernel_radius |-> Mul(a.particle_radius, a.kernel_radius),
     splash_detection_radius |->
         IF IsSome(a.splash_detection_radius)
             THEN Some(Mul(a.particle_radius, Unwrap(a.splash_detection_radius)))
             ELSE None,
     cube_size |-> Mul(a.particle_radius, a.cube_size),
     iso_surface_threshold |-> a.surface_threshold,
     enable_multi_threading |-> a.parallelize_over_particles]

\* The worker pool before anything has built it
PoolUnbuilt == [built |-> FALSE, by |-> "nobody", threads |-> 0]

\* splashsurf_lib::initialize_thread_pool: builds the global pool, an error
\* when the pool is already built
InitializeThreadPool(pool, num_threads) ==
    IF pool.built
        THEN [res |-> Err(<<Msg("The global thread pool has already been initialized", <<>>)>>),
              pool |-> pool]
        ELSE [res |-> Ok,
              pool |-> [built |-> TRUE, by |-> "initialize_thread_pool", threads |-> num_threads]]

\* A translation that drops the error of the pool initialisation
RunnerArgsTryFromLenient(a, pool) ==
    LET init == IF IsSome(a.num_threads)
                    THEN InitializeThreadPool(pool, Unwrap(a.num_threads))
                    ELSE [res |-> Ok, pool |-> pool]
    IN  [res |-> Ok, value |-> Some([params |-> Parameters(a)]), pool |-> init.pool]

\* TryFrom<&ReconstructSubcommandArgs> for ReconstructionRunnerArgs: the
\* result, the arguments on success and the worker pool
RunnerArgsTryFrom(a, pool) ==
    LET params == Parameters(a)
        init == IF IsSome(a.num_threads)
                    THEN InitializeThreadPool(pool, Unwrap(a.num_threads))
                    ELSE [res |-> Ok, pool |-> pool]
    IN  IF ~init.res.ok
            THEN [res |-> init.res, value |-> None, pool |-> init.pool]
            ELSE [res |-> Ok, value |-> Some([params |-> params]), pool |-> init.pool]

\* ---------------------------------------------------------------- engine

\* reconstruction::entry_point: fails on the input files the engine cannot
\* process
EntryPoint(path, fails) ==
    IF path.input_file \in fails
        THEN Err(<<Msg("engine error", Display(path.input_file))>>)
        ELSE Ok

\* The with_context of the parallel branch of reconstruct_subcommand
SequenceContext(path) ==
    Msg("Error while processing input file from a file sequence", Display(path.input_file))

\* log_error: the error, then each cause on a line of its own
LogError(chain) ==
    [k \in 1..Len(chain) |->
        IF k = 1 THEN Record("Error", "Error occurred", <<chain[k].msg>> \o chain[k].arg)
        ELSE Record("Error", "  caused by", <<chain[k].msg>> \o chain[k].arg)]

\* ---------------------------------------------------------------- counters

RECURSIVE SplitLines(_, _)
\* str::split("\n") from the line cur on: the pieces between line breaks
SplitLines(text, cur) ==
    IF text = <<>> THEN <<cur>>
    ELSE IF Head(text) = "\n" THEN <<cur>> \o SplitLines(Tail(text), <<>>)
    ELSE SplitLines(Tail(text), Append(cur, Head(text)))

\* The lines run_splashsurf logs for the text of coarse_prof::write
CounterRecords(text) ==
    LET lines == SelectSeq(SplitLines(text, <<>>), LAMBDA l : Len(l) > 0)
    IN  [k \in 1..Len(lines) |-> Record("Info", "counter", lines[k])]

\* coarse_prof_write_string: the text of the counters, or the error of the
\* write
CoarseProfWriteString(prof) ==
    IF prof.ok THEN [res |-> Ok, text |-> prof.text]
    ELSE [res |-> Err(<<Msg("io error", <<>>)>>), text |-> <<>>]

\* ---------------------------------------------------------------- state

VARIABLES
    cmd_args,     \* CommandlineArgs with the ReconstructSubcommandArgs
    env,          \* what the run reads from outside: RUST_LOG, the regular
                  \* files, the outcome of create_dir_all, the input files the
                  \* engine fails on, the performance counters, the host threads
    dirs,         \* the directories of the file system
    logger,       \* the global logger of the log crate
    thread_pool,  \* the global worker pool
    pc,           \* the position of the main thread
    log,          \* the records handed to the log macros, in order
    collection,   \* Option<ReconstructionRunnerPathCollection>
    paths,        \* Vec<ReconstructionRunnerPaths> of reconstruct_subcommand
    args,         \* Option<ReconstructionRunnerArgs>
    status,       \* per task: "pending", "running", "ok" or "failed"
    started,      \* the tasks in the order entry_point was called on them
    full,         \* the stop flag of the parallel try_for_each
    result,       \* Option of the result of the dispatch
    run_result,   \* Option of the result of run_splashsurf
    exit_code     \* Option of the code given to std::process::exit

vars == <<cmd_args, env, dirs, logger, thread_pool, pc, log, collection, paths,
          args, status, started, full, result, run_result, exit_code>>

Tasks == 1..Len(paths)

TasksIn(st) == {i \in Tasks : status[i] = st}

\* The state after process start for the command lines A, but for the
\* environment
InitWith(A, Loggers, Pools) ==
    /\ cmd_args \in A
    /\ dirs = {"data"}
    /\ logger \in Loggers
    /\ thread_pool \in Pools
    /\ pc = "start"
    /\ log = <<>>
    /\ collection = None
    /\ paths = <<>>
    /\ args = None
    /\ status = <<>>
    /\ started = <<>>
    /\ full = FALSE
    /\ result = None
    /\ run_result = None
    /\ exit_code = None

\* ---------------------------------------------------------------- actions

\* run_splashsurf fails: its error goes to main
Fail(r) ==
    /\ run_result' = Some(r)
    /\ pc' = "main"

\* initialize_logging and its context in run_splashsurf
InitializeLogging ==
    /\ pc = "start"
    /\ LET sel == SelectLogLevel(VerbosityLevelFrom(cmd_args.verbosity), cmd_args.quiet,
                                 env.rust_log)
       IN  IF logger.set
               THEN \* fern's apply: a logger is already installed
                    /\ Fail(Err(<<Msg("Failed to initialize logging", <<>>),
                                  Msg("Unable to apply logger configuration", <<>>)>>))
                    /\ UNCHANGED <<logger, log>>
               ELSE /\ logger' = [set |-> TRUE, level |-> sel.level]
                    /\ log' = IF IsSome(sel.unknown)
                                  THEN Append(log, Record("Error",
                                           "Unknown log filter level defined in 'RUST_LOG' env variable, using INFO instead.",
                                           Unwrap(sel.unknown)))
                                  ELSE log
                    /\ pc' = "log_program_info"
                    /\ UNCHANGED run_result
    /\ UNCHANGED <<cmd_args, env, dirs, thread_pool, collection, paths, args, status,
                   started, full, result, exit_code>>

\* log_program_info
LogProgramInfo ==
    /\ pc = "log_program_info"
    /\ log' = log \o <<Record("Info", "splashsurf version", <<>>),
                       Record("Info", "Called with command line", <<>>)>>
    /\ pc' = "resolve"
    /\ UNCHANGED <<cmd_args, env, dirs, logger, thread_pool, collection, paths, args,
                   status, started, full, result, run_result, exit_code>>

\* reconstruct_subcommand: ReconstructionRunnerPathCollection::try_from with
\* its context
ResolvePaths ==
    /\ pc = "resolve"
    /\ LET o == PathCollectionTryFrom(cmd_args, env.files, dirs, env.create_dir_ok)
       IN  /\ log' = log \o o.log
           /\ dirs' = o.dirs
           /\ IF o.res.ok
                  THEN /\ collection' = o.value
                       /\ pc' = "collect"
                       /\ UNCHANGED run_result
                  ELSE /\ Fail(WithContext(o.res,
                                   Msg("Failed parsing input file path(s) from command line", <<>>)))
                       /\ UNCHANGED collection
    /\ UNCHANGED <<cmd_args, env, logger, thread_pool, paths, args, status, started,
                   full, result, exit_code>>

\* reconstruct_subcommand: collect
CollectPaths ==
    /\ pc = "collect"
    /\ paths' = Collect(Unwrap(collection), env.files)
    /\ status' = [i \in 1..Len(paths') |-> "pending"]
    /\ pc' = "translate"
    /\ UNCHANGED <<cmd_args, env, dirs, logger, thread_pool, log, collection, args,
                   started, full, result, run_result, exit_code>>

\* reconstruct_subcommand: ReconstructionRunnerArgs::try_from with its context
TranslateParams ==
    /\ pc = "translate"
    /\ LET o == RunnerArgsTryFrom(cmd_args, thread_pool)
       IN  /\ thread_pool' = o.pool
           /\ IF o.res.ok
                  THEN /\ args' = o.value
                       /\ pc' = "dispatch"
                       /\ UNCHANGED run_result
                  ELSE /\ Fail(WithContext(o.res,
                                   Msg("Failed processing parameters from command line", <<>>)))
                       /\ UNCHANGED args
    /\ UNCHANGED <<cmd_args, env, dirs, logger, log, collection, paths, status, started,
                   full, result, exit_code>>

\* The result of task i as the closure of the parallel branch returns it
ParallelTaskResult(i) ==
    WithContext(EntryPoint(paths[i], env.engine_fails), SequenceContext(paths[i]))

\* A sequential loop that goes on to the next task after a failure
NextSequentialKeepGoing(st) ==
    LET pending == {i \in 1..Len(st) : st[i] = "pending"}
    IN  IF pending # {}
            THEN Some(CHOOSE i \in pending : \A j \in pending : i <= j)
            ELSE None

\* The task the sequential try_for_each calls the engine on next, if any: the
\* first one not yet run, unless a task has failed
NextSequential(st) ==
    LET pending == {i \in 1..Len(st) : st[i] = "pending"}
        failed == {i \in 1..Len(st) : st[i] = "failed"}
    IN  IF failed = {} /\ pending # {}
            THEN Some(CHOOSE i \in pending : \A j \in pending : i <= j)
            ELSE None

\* The result the sequential try_for_each returns: the error of the failed
\* task, or Ok
SequentialResult(st) ==
    LET failed == {i \in 1..Len(st) : st[i] = "failed"}
    IN  IF failed = {} THEN Ok
        ELSE EntryPoint(paths[CHOOSE i \in failed : TRUE], env.engine_fails)

\* A reconstruct_subcommand that reports a batch without tasks as an error
ReturnFromSubcommandRejectingEmpty(r) ==
    LET q == IF paths = <<>> THEN Err(<<Msg("No input file found", <<>>)>>) ELSE r
    IN  /\ result' = Some(q)
        /\ IF q.ok
               THEN /\ log' = Append(log, Record("Info", "Successfully finished processing all inputs.", <<>>))
                    /\ pc' = "flush"
                    /\ UNCHANGED run_result
               ELSE /\ Fail(q)
                    /\ UNCHANGED log

\* The end of reconstruct_subcommand with result r, and the ? of run_splashsurf
ReturnFromSubcommand(r) ==
    /\ result' = Some(r)
    /\ IF r.ok
           THEN /\ log' = Append(log, Record("Info", "Successfully finished processing all inputs.", <<>>))
                /\ pc' = "flush"
                /\ UNCHANGED run_result
           ELSE /\ Fail(r)
                /\ UNCHANGED log

\* Sequential dispatch: the engine is called on the next task
SeqStart ==
    /\ pc = "dispatch"
    /\ ~cmd_args.parallelize_over_files
    /\ TasksIn("running") = {}
    /\ IsSome(NextSequential(status))
    /\ LET i == Unwrap(NextSequential(status))
       IN  /\ status' = [status EXCEPT ![i] = "running"]
           /\ started' = Append(started, i)
    /\ UNCHANGED <<cmd_args, env, dirs, logger, thread_pool, pc, log, collection, paths,
                   args, full, result, run_result, exit_code>>

\* Sequential dispatch: the engine returns from the running task
SeqFinish ==
    /\ pc = "dispatch"
    /\ ~cmd_args.parallelize_over_files
    /\ \E i \in TasksIn("running") :
           status' = [status EXCEPT
                         ![i] = IF EntryPoint(paths[i], env.engine_fails).ok
                                    THEN "ok" ELSE "failed"]
    /\ UNCHANGED <<cmd_args, env, dirs, logger, thread_pool, pc, log, collection, paths,
                   args, started, full, result, run_result, exit_code>>

\* Sequential dispatch: try_for_each returns, reconstruct_subcommand ends
SeqReturn ==
    /\ pc = "dispatch"
    /\ ~cmd_args.parallelize_over_files
    /\ TasksIn("running") = {}
    /\ NextSequential(status) = None
    /\ ReturnFromSubcommand(SequentialResult(status))
    /\ UNCHANGED <<cmd_args, env, dirs, logger, thread_pool, collection, paths, args,
                   status, started, full, exit_code>>

\* Parallel dispatch: par_iter().try_for_each is entered; the first use of
\* the global pool builds it with one thread per host thread
ParSubmit ==
    /\ pc = "dispatch"
    /\ cmd_args.parallelize_over_files
    /\ thread_pool' = IF thread_pool.built THEN thread_pool
                      ELSE [built |-> TRUE, by |-> "rayon", threads |-> env.host_threads]
    /\ pc' = "par_iter"
    /\ UNCHANGED <<cmd_args, env, dirs, logger, log, collection, paths, args, status,
                   started, full, result, run_result, exit_code>>

\* Whether a worker may still pick up a task that has not started.  The
\* parallel try_for_each stops handing out items "as soon as possible" after
\* an error: a task not yet started may or may not still be run.
MayStart(i) == status[i] = "pending"

\* Parallel dispatch: a free worker calls the engine on task i
ParStart(i) ==
    /\ pc = "par_iter"
    /\ MayStart(i)
    /\ Cardinality(TasksIn("running")) < thread_pool.threads
    /\ status' = [status EXCEPT ![i] = "running"]
    /\ started' = Append(started, i)
    /\ UNCHANGED <<cmd_args, env, dirs, logger, thread_pool, pc, log, collection, paths,
                   args, full, result, run_result, exit_code>>

\* A parallel branch whose tasks leave the logging to main
ParallelTaskLogNothing(r) == <<>>

\* The records a task of the parallel branch logs when it ends with r
ParallelTaskLog(r) == IF r.ok THEN <<>> ELSE LogError(r.chain)

\* Parallel dispatch: the engine returns from task i; the closure logs a
\* failure at once and the failure raises the stop flag
ParFinish(i) ==
    /\ pc = "par_iter"
    /\ status[i] = "running"
    /\ LET r == ParallelTaskResult(i)
       IN  /\ status' = [status EXCEPT ![i] = IF r.ok THEN "ok" ELSE "failed"]
           /\ log' = log \o ParallelTaskLog(r)
           /\ full' = (full \/ ~r.ok)
    /\ UNCHANGED <<cmd_args, env, dirs, logger, thread_pool, pc, collection, paths, args,
                   started, result, run_result, exit_code>>

\* The results the parallel try_for_each can return once every worker is idle
ParallelResults ==
    IF TasksIn("failed") = {} THEN {Ok}
    ELSE {ParallelTaskResult(i) : i \in TasksIn("failed")}

\* A parallel try_for_each that returns at the first error and abandons the
\* tasks still running
ParReturnAbandoning ==
    /\ pc = "par_iter"
    /\ full \/ (TasksIn("running") = {} /\ TasksIn("pending") = {})
    /\ \E r \in ParallelResults : ReturnFromSubcommand(r)
    /\ UNCHANGED <<cmd_args, env, dirs, logger, thread_pool, collection, paths, args,
                   status, started, full, exit_code>>

\* Parallel dispatch: try_for_each returns once no task runs and either the
\* stop flag is up or no task is left; reconstruct_subcommand ends
ParReturn ==
    /\ pc = "par_iter"
    /\ TasksIn("running") = {}
    /\ full \/ TasksIn("pending") = {}
    /\ \E r \in ParallelResults : ReturnFromSubcommand(r)
    /\ UNCHANGED <<cmd_args, env, dirs, logger, thread_pool, collection, paths, args,
                   status, started, full, exit_code>>

\* run_splashsurf: the counters are written and logged line by line
FlushCounters ==
    /\ pc = "flush"
    /\ LET o == CoarseProfWriteString(env.prof)
       IN  IF o.res.ok
               THEN /\ log' = log \o CounterRecords(o.text)
                    /\ run_result' = Some(Ok)
                    /\ pc' = "main"
               ELSE /\ Fail(o.res)
                    /\ UNCHANGED log
    /\ UNCHANGED <<cmd_args, env, dirs, logger, thread_pool, collection, paths, args,
                   status, started, full, result, exit_code>>

\* A main that ends with code 0 whatever run_splashsurf returned
ExitCodeZero(r) == 0

\* The exit code main gives for the result of run_splashsurf
ExitCode(r) == IF r.ok THEN 0 ELSE 1

\* The records main logs for the result of run_splashsurf
ExitLog(r) == IF r.ok THEN <<>> ELSE LogError(r.chain)

\* main: the result of run_splashsurf becomes the exit code
Exit ==
    /\ pc = "main"
    /\ log' = log \o ExitLog(Unwrap(run_result))
    /\ exit_code' = Some(ExitCode(Unwrap(run_result)))
    /\ pc' = "exited"
    /\ UNCHANGED <<cmd_args, env, dirs, logger, thread_pool, collection, paths, args,
                   status, started, full, result, run_result>>

\* ---------------------------------------------------------------- inputs

\* A command line with every option at a plain value
BaseArgs ==
    [quiet |-> FALSE,
     verbosity |-> 0,
     input_file |-> File(<<"f", "{", "}", ".", "x">>),
     output_file |-> None,
     output_dir |-> None,
     particle_radius |-> 1,
     rest_density |-> 1000,
     kernel_radius |-> 2,
     splash_detection_radius |-> None,
     cube_size |-> 1,
     surface_threshold |-> 1,
     output_dm_points |-> None,
     output_dm_grid |-> None,
     output_octree |-> None,
     parallelize_over_files |-> FALSE,
     parallelize_over_particles |-> FALSE,
     num_threads |-> None]

\* The pair of --mt-files and --mt-particles: the two conflict
Strategies == {<<FALSE, FALSE>>, <<TRUE, FALSE>>, <<FALSE, TRUE>>}

\* The file of index i of the input pattern of command line a
NumberedInput(a, i) ==
    [dir |-> a.input_file.dir,
     name |-> Replace(a.input_file.name, Placeholder, UsizeToString(i))]

\* The texts coarse_prof::write can give
ProfTexts == {<<>>, <<"a", "\n">>, <<"a", "\n", "\n", "b", "\n">>}

\* An environment of command line a: the numbered inputs that exist, whether
\* the input path itself is a file, those of the numbered inputs the engine
\* fails on, and the rest
EnvOf(a, rust_log, existing, literal, create_ok, failing, prof) ==
    [rust_log |-> rust_log,
     files |-> {NumberedInput(a, i) : i \in existing}
               \cup (IF literal THEN {a.input_file} ELSE {}),
     create_dir_ok |-> create_ok,
     engine_fails |-> {NumberedInput(a, i) : i \in failing}
                      \cup (IF literal /\ failing # {} THEN {a.input_file} ELSE {}),
     prof |-> prof,
     host_threads |-> HostThreads]

LoggerUnset == [set |-> FALSE, level |-> "Off"]

\* A logger some other code of the process has installed
LoggerForeign == [set |-> TRUE, level |-> "Info"]

\* A worker pool some other code of the process has built
PoolForeign == [built |-> TRUE, by |-> "other", threads |-> HostThreads]

\* Command lines and environments of the whole run
ArgsRun ==
    {[BaseArgs EXCEPT !.input_file = File(name),
                      !.parallelize_over_files = s[1],
                      !.parallelize_over_particles = s[2],
                      !.num_threads = n] :
        name \in {<<"f", "{", "}", ".", "x">>, <<"f", ".", "x">>},
        s \in Strategies, n \in {None, Some(1), Some(2)}}

EnvsRun(a) ==
    {EnvOf(a, None, existing, literal, TRUE, failing, prof) :
        existing \in SUBSET (1..MaxIdx), literal \in BOOLEAN,
        failing \in SUBSET (1..MaxIdx),
        prof \in {[ok |-> TRUE, text |-> t] : t \in ProfTexts}
                  \cup {[ok |-> FALSE, text |-> <<>>]}}

Init == InitWith(ArgsRun, {LoggerUnset}, {PoolUnbuilt}) /\ env \in EnvsRun(cmd_args)

Next ==
    \/ InitializeLogging
    \/ LogProgramInfo
    \/ ResolvePaths
    \/ CollectPaths
    \/ TranslateParams
    \/ SeqStart
    \/ SeqFinish
    \/ SeqReturn
    \/ ParSubmit
    \/ \E i \in Tasks : ParStart(i)
    \/ \E i \in Tasks : ParFinish(i)
    \/ ParReturn
    \/ FlushCounters
    \/ Exit

\* The whole run of the reconstruct subcommand
Spec == Init /\ [][Next]_vars

\* ---------------------------------------------------------------- path resolution

\* File names given as the input: a pattern, a pattern whose placeholder is
\* the extension, a name without placeholder, the bare placeholder, a pattern
\* with two placeholders, and ".."
InputNames ==
    {<<"f", "{", "}", ".", "x">>, <<"f", ".", "{", "}">>, <<"f", ".", "x">>,
     <<"{", "}">>, <<"{", "}", "_", "{", "}", ".", "x">>, <<".", ".">>}

InputDirs == {"", "data", "missing"}

OutputFiles ==
    {None, Some(File(<<"o", ".", "vtk">>)), Some(File(<<"o", "{", "}", ".", "vtk">>))}

ArgsPaths ==
    {[BaseArgs EXCEPT !.input_file = [dir |-> d, name |-> n],
                      !.output_file = o,
                      !.output_dir = od,
                      !.output_dm_points = IF dp THEN Some(File(<<"points">>)) ELSE None,
                      !.output_dm_grid = IF dg THEN Some(File(<<"grid">>)) ELSE None,
                      !.output_octree = IF oc THEN Some(File(<<"octree">>)) ELSE None] :
        d \in InputDirs, n \in InputNames, o \in OutputFiles,
        od \in {None, Some("out")}, dp \in BOOLEAN, dg \in BOOLEAN, oc \in BOOLEAN}

\* Files exist only in directories that exist, and ".." is no regular file
EnvsPaths(a) ==
    {EnvOf(a, None, existing, literal, create_ok, {}, [ok |-> TRUE, text |-> <<>>]) :
        existing \in IF a.input_file.dir = "missing" \/ a.input_file.name = <<".", ".">>
                         THEN {{}} ELSE SUBSET (1..MaxIdx),
        literal \in IF a.input_file.dir = "missing" \/ a.input_file.name = <<".", ".">>
                        THEN {FALSE} ELSE BOOLEAN,
        create_ok \in BOOLEAN}

InitPaths == InitWith(ArgsPaths, {LoggerUnset}, {PoolUnbuilt}) /\ env \in EnvsPaths(cmd_args)

NextPaths ==
    \/ InitializeLogging
    \/ LogProgramInfo
    \/ ResolvePaths
    \/ CollectPaths

\* The run up to the end of path resolution and sequence expansion
SpecPaths == InitPaths /\ [][NextPaths]_vars

\* collect has returned
Collected == pc = "translate"

\* The batch comes from sequence expansion
SequenceMode == IsSome(collection) /\ Unwrap(collection).is_sequence

\* The batch comes from a single input file
SingleMode == IsSome(collection) /\ ~Unwrap(collection).is_sequence

\* The smallest positive index whose numbered input file does not exist
FirstMissing ==
    CHOOSE n \in 1..(MaxIdx + 1) :
        /\ NumberedInput(cmd_args, n) \notin env.files
        /\ \A j \in 1..(n - 1) : NumberedInput(cmd_args, j) \in env.files

\* C1: sequence expansion yields exactly one task for each index 1..k, in
\* increasing order, where k+1 is the smallest positive index whose numbered
\* input file does not exist: no file past the first missing index is
\* included and no task names a file that does not exist.
C1_SequenceExpansion ==
    (Collected /\ SequenceMode) =>
        /\ Len(paths) = FirstMissing - 1
        /\ \A i \in 1..Len(paths) :
               /\ paths[i].input_file = NumberedInput(cmd_args, i)
               /\ paths[i].input_file \in env.files

\* A sequence was expanded to one task although the file of index 3 exists:
\* the file of index 2 is missing
C1_Witness ==
    /\ Collected
    /\ SequenceMode
    /\ Len(paths) = 1
    /\ NumberedInput(cmd_args, 3) \in env.files

\* What a path given on the command line becomes under the output directory
UnderOutputDir(p) ==
    IF IsSome(cmd_args.output_dir) THEN Join(Unwrap(cmd_args.output_dir), p) ELSE p

\* What an optional path of the command line becomes under the output directory
OptUnderOutputDir(o) == IF IsSome(o) THEN Some(UnderOutputDir(Unwrap(o))) ELSE None

\* <input-stem>_surface.vtk
StemSurfaceVtk ==
    File(Unwrap(FileStem(cmd_args.input_file))
         \o <<"_", "s", "u", "r", "f", "a", "c", "e", ".", "vtk">>)

\* The input path names an existing regular file
InputIsFile == cmd_args.input_file \in env.files

\* Path resolution has returned an error
ResolutionFailed == pc = "main" /\ collection = None /\ IsSome(run_result)

\* C2: when the input path names an existing regular file, resolution
\* followed by collect yields exactly one task: its input is that file, its
\* output path is, before the joining with the output directory, the user's
\* output path when one is given and <input-stem>_surface.vtk otherwise, and
\* it carries the user's diagnostic output paths.  Resolution of an existing
\* file returns no batch only when the output directory cannot be created.
C2_SingleFile ==
    /\ (InputIsFile /\ Collected) =>
           /\ SingleMode
           /\ Len(paths) = 1
           /\ paths[1].input_file = cmd_args.input_file
           /\ paths[1].output_file =
                  UnderOutputDir(IF IsSome(cmd_args.output_file)
                                     THEN Unwrap(cmd_args.output_file)
                                     ELSE StemSurfaceVtk)
           /\ paths[1].output_density_map_points_file =
                  OptUnderOutputDir(cmd_args.output_dm_points)
           /\ paths[1].output_density_map_grid_file =
                  OptUnderOutputDir(cmd_args.output_dm_grid)
           /\ paths[1].output_octree_file = OptUnderOutputDir(cmd_args.output_octree)
    /\ (InputIsFile /\ ResolutionFailed) =>
           /\ IsSome(cmd_args.output_dir)
           /\ ~env.create_dir_ok

\* A single existing file was resolved with a user-supplied output path, an
\* output directory and a diagnostic output path
C2_Witness ==
    /\ InputIsFile
    /\ Collected
    /\ Len(paths) = 1
    /\ IsSome(cmd_args.output_file)
    /\ IsSome(cmd_args.output_dir)
    /\ IsSome(cmd_args.output_dm_grid)
    /\ cmd_args.output_dm_points = None

\* The output file name template a sequence batch is to use: the user's
\* output file name when one is given, else the one derived from the input
\* stem (placeholder replaced by surface_{}, extension .vtk)
ClaimedTemplateName ==
    IF IsSome(cmd_args.output_file) THEN Unwrap(cmd_args.output_file).name
    ELSE Replace(Unwrap(FileStem(cmd_args.input_file)), Placeholder,
                 <<"s", "u", "r", "f", "a", "c", "e", "_", "{", "}">>) \o <<".", "vtk">>

\* C10: for a valid sequence pattern the output file name template is derived
\* from the input stem only when the user supplied no output file name; a
\* user-supplied output file name is the template of the tasks of the batch.
C10_OutputTemplate ==
    (Collected /\ SequenceMode) =>
        /\ Unwrap(collection).output_file.name = ClaimedTemplateName
        /\ \A i \in 1..Len(paths) :
               paths[i].output_file.name =
                   Replace(ClaimedTemplateName, Placeholder, UsizeToString(i))

\* ---------------------------------------------------------------- dispatch

\* The dispatcher has returned
Dispatched == IsSome(result)

\* The set of the elements of a sequence
Range(q) == {q[k] : k \in 1..Len(q)}

\* The error of the engine on task i, as the engine returns it
EngineError(i) == Err(<<Msg("engine error", Display(paths[i].input_file))>>)

\* C3: without mt-files the engine is invoked on the tasks one at a time in
\* batch order, at most one invocation is active at any moment, and when the
\* invocation for task i fails the engine is never invoked for the tasks
\* after i and the dispatcher returns the error of task i; it returns
\* success only when every task ran and succeeded.
C3_Sequential ==
    ~cmd_args.parallelize_over_files =>
        /\ started = [k \in 1..Len(started) |-> k]
        /\ Cardinality(TasksIn("running")) <= 1
        /\ \A i \in TasksIn("failed") :
               /\ \A j \in Tasks : j > i => (status[j] = "pending" /\ j \notin Range(started))
               /\ Dispatched => Unwrap(result) = EngineError(i)
        /\ (Dispatched /\ TasksIn("failed") = {}) =>
               /\ Unwrap(result) = Ok
               /\ \A i \in Tasks : status[i] = "ok"

\* The second of three tasks failed under the sequential strategy and the
\* dispatcher has returned
C3_Witness ==
    /\ ~cmd_args.parallelize_over_files
    /\ Dispatched
    /\ status = <<"ok", "failed", "pending">>

\* C4, as claimed: in mt-files mode every task of the batch is executed,
\* whether or not a sibling task has failed.
C4_AllTasksExecuted ==
    (cmd_args.parallelize_over_files /\ Dispatched) =>
        \A i \in Tasks : status[i] \in {"ok", "failed"}

\* The outcome of the engine on task i
OwnOutcome(i) == IF paths[i].input_file \in env.engine_fails THEN "failed" ELSE "ok"

\* C4, amended: in mt-files mode a task whose engine invocation has started
\* is never cancelled: it runs to its own completion, whatever its siblings
\* do, before the dispatcher returns.  A task that has not started when a
\* sibling fails may be skipped; when no task fails every task is executed.
C4_StartedTasksComplete ==
    cmd_args.parallelize_over_files =>
        /\ \A i \in Tasks : i \in Range(started) <=> status[i] # "pending"
        /\ \A i \in Tasks : status[i] \in {"ok", "failed"} => status[i] = OwnOutcome(i)
        /\ Dispatched =>
               /\ \A i \in Range(started) : status[i] = OwnOutcome(i)
               /\ TasksIn("failed") = {} => \A i \in Tasks : status[i] = "ok"

\* In mt-files mode the dispatcher returned after one task failed, a sibling
\* ran to its successful end and a third task was never started
C4_Witness ==
    /\ cmd_args.parallelize_over_files
    /\ Dispatched
    /\ \E i, j, k \in Tasks :
           /\ status[i] = "failed"
           /\ status[j] = "ok"
           /\ status[k] = "pending"

\* The records log_error gives for the error of task i of the parallel branch
ParallelErrorRecords(i) ==
    <<Record("Error", "Error occurred",
             <<"Error while processing input file from a file sequence">>
             \o Display(paths[i].input_file)),
      Record("Error", "  caused by", <<"engine error">> \o Display(paths[i].input_file))>>

\* The summary line of a run whose tasks all succeeded
Summary == Record("Info", "Successfully finished processing all inputs.", <<>>)

\* C5: in mt-files mode every failed task has its error, wrapped with the
\* context naming its input file, in the log from the moment it failed, so
\* before the dispatcher returns; the dispatcher returns the error of one of
\* the failed tasks, and returns success, with the one summary line, only
\* when every task of the batch succeeded.
C5_ParallelFailures ==
    cmd_args.parallelize_over_files =>
        /\ \A i \in TasksIn("failed") :
               \E k \in 1..Len(log) - 1 : SubSeq(log, k, k + 1) = ParallelErrorRecords(i)
        /\ (Dispatched /\ TasksIn("failed") # {}) =>
               \E i \in TasksIn("failed") :
                   Unwrap(result) =
                       Err(<<Msg("Error while processing input file from a file sequence",
                                 Display(paths[i].input_file)),
                             Msg("engine error", Display(paths[i].input_file))>>)
        /\ (Dispatched /\ Unwrap(result).ok) => \A i \in Tasks : status[i] = "ok"
        /\ Cardinality({k \in 1..Len(log) : log[k] = Summary}) =
               IF Dispatched /\ \A i \in Tasks : status[i] = "ok" THEN 1 ELSE 0

\* In mt-files mode two tasks failed and the dispatcher returned the error of
\* the one that failed last
C5_Witness ==
    /\ cmd_args.parallelize_over_files
    /\ Dispatched
    /\ Cardinality(TasksIn("failed")) = 2
    /\ \E i \in TasksIn("failed") :
           /\ Unwrap(result).chain[2].arg = Display(paths[i].input_file)
           /\ \E k \in 3..Len(log) - 1 :
                  /\ SubSeq(log, k, k + 1) = ParallelErrorRecords(i)
                  /\ log[k - 1].level = "Error"

\* ---------------------------------------------------------------- worker pool

InitShared == InitWith(ArgsRun, {LoggerUnset, LoggerForeign}, {PoolUnbuilt, PoolForeign}) /\ env \in EnvsRun(cmd_args)

\* The whole run in a process whose global logger or global worker pool may
\* already have been set up by other code
SpecShared == InitShared /\ [][Next]_vars

\* The parameter translation has been reached and has returned
Translated == IsSome(collection) /\ pc \notin {"collect", "translate"}

\* The state part of C6
PoolInitialisationInvariant ==
    /\ thread_pool.by = "initialize_thread_pool" =>
           /\ IsSome(cmd_args.num_threads)
           /\ thread_pool.threads = Unwrap(cmd_args.num_threads)
    /\ (IsSome(cmd_args.num_threads) /\ started # <<>>) =>
           thread_pool.by = "initialize_thread_pool"
    /\ ~Translated => started = <<>>
    /\ (Translated /\ IsSome(cmd_args.num_threads) /\ thread_pool.by = "other") =>
           /\ args = None
           /\ started = <<>>
           /\ result = None
           /\ IsSome(run_result)
           /\ ~Unwrap(run_result).ok
           /\ Len(Unwrap(run_result).chain) = 2
           /\ Unwrap(run_result).chain[1].msg = "Failed processing parameters from command line"
           /\ exit_code \in {None, Some(1)}

\* C6: this program initialises the worker pool only when a worker count is
\* requested, with that count, before any task is executed and at most once
\* (a pool it has initialised is never set up again); a request made when the
\* pool is already initialised yields an error, which the parameter
\* translation passes on, so that reconstruct_subcommand fails, with the
\* context of the translation, without executing any task.
C6_PoolInitialisation ==
    /\ []PoolInitialisationInvariant
    /\ [][thread_pool.by = "initialize_thread_pool" => thread_pool' = thread_pool]_vars
    /\ [][thread_pool'.by = "initialize_thread_pool" /\ thread_pool' # thread_pool
              => pc = "translate"]_vars

\* A worker count was requested with the pool already initialised, for a
\* batch of three tasks, and the run has ended
C6_Witness ==
    /\ IsSome(cmd_args.num_threads)
    /\ thread_pool.by = "other"
    /\ Len(paths) = 3
    /\ pc = "exited"

\* ---------------------------------------------------------------- parameters

ArgsParams ==
    {[BaseArgs EXCEPT !.particle_radius = pr,
                      !.kernel_radius = kr,
                      !.cube_size = cs,
                      !.splash_detection_radius = sd,
                      !.rest_density = rd,
                      !.surface_threshold = st,
                      !.parallelize_over_particles = pp] :
        pr \in 1..MaxScalar, kr \in 1..MaxScalar, cs \in 1..MaxScalar,
        sd \in {None} \cup {Some(m) : m \in 1..MaxScalar},
        rd \in {1000, 998}, st \in {5, 6}, pp \in BOOLEAN}

EnvsParams(a) ==
    {EnvOf(a, None, {1}, FALSE, TRUE, {}, [ok |-> TRUE, text |-> <<>>])}

InitParams == InitWith(ArgsParams, {LoggerUnset}, {PoolUnbuilt}) /\ env \in EnvsParams(cmd_args)

NextParams ==
    \/ InitializeLogging
    \/ LogProgramInfo
    \/ ResolvePaths
    \/ CollectPaths
    \/ TranslateParams

\* The run up to the end of the parameter translation
SpecParams == InitParams /\ [][NextParams]_vars

\* C7: the translated configuration has kernel_radius = particle_radius x
\* kernel radius multiplier, cube_size = particle_radius x cube size
\* multiplier, splash_detection_radius = particle_radius x splash multiplier
\* when that multiplier is given and none when it is not, and carries
\* particle_radius, rest density and surface threshold through unchanged.
C7_ParameterTranslation ==
    IsSome(args) =>
        LET p == Unwrap(args).params IN
        /\ p.kernel_radius = cmd_args.particle_radius * cmd_args.kernel_radius
        /\ p.cube_size = cmd_args.particle_radius * cmd_args.cube_size
        /\ IF cmd_args.splash_detection_radius = None
               THEN p.splash_detection_radius = None
               ELSE p.splash_detection_radius =
                        Some(cmd_args.particle_radius * cmd_args.splash_detection_radius[1])
        /\ p.particle_radius = cmd_args.particle_radius
        /\ p.rest_density = cmd_args.rest_density
        /\ p.iso_surface_threshold = cmd_args.surface_threshold

\* A configuration was translated from a particle radius of 2 and three
\* different multipliers
C7_Witness ==
    /\ IsSome(args)
    /\ cmd_args.particle_radius = 2
    /\ cmd_args.kernel_radius = 3
    /\ cmd_args.cube_size = 1
    /\ cmd_args.splash_detection_radius = Some(2)
    /\ Unwrap(args).params.splash_detection_radius = Some(4)

\* ---------------------------------------------------------------- logging

\* Values of RUST_LOG: unset, the six level names, two of them in other case,
\* and three values that are no level name
RustLogs ==
    {None,
     Some(<<"o", "f", "f">>), Some(<<"e", "r", "r", "o", "r">>),
     Some(<<"w", "a", "r", "n">>), Some(<<"i", "n", "f", "o">>),
     Some(<<"d", "e", "b", "u", "g">>), Some(<<"t", "r", "a", "c", "e">>),
     Some(<<"D", "E", "B", "U", "G">>), Some(<<"W", "a", "r", "n">>),
     Some(<<"v", "e", "r", "b", "o", "s", "e">>), Some(<<"i", "n", "f", "o", "s">>),
     Some(<<>>)}

ArgsLogging ==
    {[BaseArgs EXCEPT !.quiet = q, !.verbosity = v] :
        q \in BOOLEAN, v \in 0..MaxVerbosity}

EnvsLogging(a) ==
    {EnvOf(a, rl, {1}, FALSE, TRUE, {}, [ok |-> TRUE, text |-> <<>>]) : rl \in RustLogs}

InitLogging == InitWith(ArgsLogging, {LoggerUnset}, {PoolUnbuilt}) /\ env \in EnvsLogging(cmd_args)

NextLogging ==
    \/ InitializeLogging
    \/ LogProgramInfo

\* The run up to the end of the logging setup
SpecLogging == InitLogging /\ [][NextLogging]_vars

\* The level a recognised RUST_LOG value names
NamedLevel(v) ==
    CASE v = <<"o", "f", "f">> -> "Off"
      [] v = <<"e", "r", "r", "o", "r">> -> "Error"
      [] v = <<"w", "a", "r", "n">> -> "Warn"
      [] v = <<"i", "n", "f", "o">> -> "Info"
      [] v = <<"d", "e", "b", "u", "g">> -> "Debug"
      [] v = <<"t", "r", "a", "c", "e">> -> "Trace"
      [] OTHER -> "unrecognised"

\* RUST_LOG as the level selection reads it: in lower case
RustLogRead == ToAsciiLowercase(Unwrap(env.rust_log))

\* The records that warn of an unknown log filter level
UnknownLevelWarnings ==
    {k \in 1..Len(log) :
        log[k].msg = "Unknown log filter level defined in 'RUST_LOG' env variable, using INFO instead."}

Exited == pc = "exited"

\* No step of the run has surfaced an error: the logger was set up, the paths
\* were resolved, the parameters translated, no task failed and the counters
\* were written
NoErrorSurfaced ==
    /\ logger.set
    /\ IsSome(collection)
    /\ IsSome(args)
    /\ TasksIn("failed") = {}
    /\ env.prof.ok

\* The line main logs for message k of an error chain
ChainLine(chain, k) ==
    Record("Error", IF k = 1 THEN "Error occurred" ELSE "  caused by",
           <<chain[k].msg>> \o chain[k].arg)

\* C9: the process ends with code 0 exactly when no error was surfaced by the
\* logging setup, the path resolution, the parameter translation, a task or
\* the counter flush, and with code 1 otherwise; on the error path the last
\* records of the log are the error and each cause of its chain, one record
\* each, in order.
C9_ExitCode ==
    Exited =>
        /\ exit_code = Some(IF NoErrorSurfaced THEN 0 ELSE 1)
        /\ NoErrorSurfaced <=> Unwrap(run_result).ok
        /\ ~NoErrorSurfaced =>
               LET chain == Unwrap(run_result).chain
                   n == Len(chain)
               IN  /\ n >= 1
                   /\ Len(log) >= n
                   /\ \A k \in 1..n : log[Len(log) - n + k] = ChainLine(chain, k)

\* The process has ended with code 1 on a path resolution error whose chain
\* has a context and a cause
C9_Witness ==
    /\ Exited
    /\ exit_code = Some(1)
    /\ collection = None
    /\ Len(Unwrap(run_result).chain) = 2
    /\ log[Len(log)].msg = "  caused by"

\* ---------------------------------------------------------------- counter flush

\* The records of the log that hold a line of the performance counters
CounterLines == SelectSeq(log, LAMBDA r : r.msg = "counter")

\* C11: when the process has ended after its logger was installed, the
\* performance counters were written once and the log holds one record for
\* each counter line, whether the subcommand succeeded or returned an error.
C11_CounterFlush ==
    (Exited /\ logger.set /\ env.prof.ok) =>
        CounterLines = CounterRecords(env.prof.text)

\* ---------------------------------------------------------------- empty batch

\* The input path is a valid sequence pattern that matches no file: it is
\* no file itself, its parent directory exists, its file name holds the
\* placeholder and the file of index 1 does not exist
EmptySequenceMatch ==
    /\ ~IsFile(env.files, cmd_args.input_file)
    /\ IsDir(dirs, Parent(cmd_args.input_file)) \/ Parent(cmd_args.input_file) = ""
    /\ Contains(Unwrap(FileName(cmd_args.input_file)), Placeholder)
    /\ ~IsFile(env.files, NumberedInput(cmd_args, 1))

\* The records of the log that report an error
ErrorRecords == SelectSeq(log, LAMBDA r : r.level = "Error")

\* C12: for a valid sequence pattern whose file of index 1 does not exist,
\* under every concurrency strategy, the resolution gives an empty sequence
\* batch, the engine is never invoked, the dispatcher returns success with
\* the one summary line and without any error record, and the process ends
\* with code 0 (the one error that can follow is a failed write of the
\* performance counters).
C12_EmptySequenceMatch ==
    EmptySequenceMatch =>
        /\ pc \notin {"start", "log_program_info", "resolve"} => SequenceMode
        /\ paths = <<>> /\ status = <<>> /\ started = <<>>
        /\ Dispatched =>
               /\ Unwrap(result) = Ok
               /\ Cardinality({k \in 1..Len(log) : log[k] = Summary}) = 1
        /\ (pc \in {"flush", "main", "exited"}) => Dispatched
        /\ ErrorRecords # <<>> => (Exited /\ ~env.prof.ok)
        /\ Exited => exit_code = Some(IF env.prof.ok THEN 0 ELSE 1)

\* A run in mt-files mode on a pattern without any file has ended with code
\* 0, with the summary line in its log and no task ever started
C12_Witness ==
    /\ EmptySequenceMatch
    /\ cmd_args.parallelize_over_files
    /\ collection # None
    /\ Exited
    /\ exit_code = Some(0)
    /\ started = <<>>
    /\ \E k \in 1..Len(log) : log[k] = Summary

\* ---------------------------------------------------------------- output collision

\* C13: for every sequence pattern the path resolution accepts, the output
\* file name template it derives still holds the placeholder, and any two
\* distinct tasks of the batch have distinct output file paths.
C13_NoOutputCollision ==
    (Collected /\ SequenceMode) =>
        /\ Contains(Unwrap(FileName(Unwrap(collection).output_file)), Placeholder)
        /\ \A i, j \in 1..Len(paths) :
               i # j => paths[i].output_file # paths[j].output_file

====
